---- MODULE Spec2Model ----
(***************************************************************************)
(* Bookstore API: the in-memory BookDatabase (src/app/database.py), its    *)
(* pydantic models (src/app/models.py), the request handlers               *)
(* (src/app/routes.py) and the list-backed entry point (src/main.py).      *)
(*                                                                         *)
(* Python objects live in a heap and are handled by reference: the store   *)
(* maps a book id to the address of a Book object, and what a method       *)
(* returns is an address, not a copy of the object.                        *)
(***************************************************************************)
EXTENDS Integers, Sequences, FiniteSets, TLC

VARIABLES
    heap,       \* address -> Book object (the allocated pydantic objects)
    _books,     \* BookDatabase._books: book id -> address of the stored Book
    _next_id,   \* BookDatabase._next_id
    call,       \* the operation of the last step and its arguments
    ret,        \* what the store method (or thread, or legacy handler) returned
    status,     \* HTTP status of the last response
    created,    \* history: the ids returned by create, in call order
    held,       \* addresses an in-process caller of the store keeps
    pc,         \* per worker thread: the statement it is about to run
    req,        \* per worker thread: the request it serves
    loc,        \* per worker thread: its local variables
    books       \* src/main.py: the list-backed store

vars == <<heap, _books, _next_id, call, ret, status, created, held, pc, req, loc, books>>

storeVars == <<heap, _books, _next_id>>
threadVars == <<pc, req, loc>>

-----------------------------------------------------------------------------
(* Bounds of the model *)

\* create calls per behaviour
MaxCreates == 2

-----------------------------------------------------------------------------
(* Python values *)

PyNone == [type |-> "NoneType"]
PyStr(s) == [type |-> "str", val |-> s]
PyInt(n) == [type |-> "int", val |-> n]
PyFloat(n) == [type |-> "float", val |-> n]
PyBool(b) == [type |-> "bool", val |-> b]
\* a reference to a Book object
Ref(r) == [type |-> "Book", ref |-> r]
\* a list of references to Book objects
PyList(rs) == [type |-> "list", refs |-> rs]
PyRaise(e) == [type |-> "raise", exc |-> e]

Range(f) == {f[x] : x \in DOMAIN f}

-----------------------------------------------------------------------------
(* src/app/models.py *)

Fields == {"title", "author", "price", "available"}

TitleMaxLen == 200
AuthorMaxLen == 100

\* str with min_length / max_length
StrField(v, lo, hi) == v.type = "str" /\ Len(v.val) >= lo /\ Len(v.val) <= hi

\* float with gt=0; an int is accepted and converted
PositiveFloat(v) == v.type \in {"int", "float"} /\ v.val > 0

ToFloat(v) == IF v.type = "int" THEN PyFloat(v.val) ELSE v

\* BookBase / BookCreate: does the request body validate
BookCreateValid(body) ==
    /\ "title" \in DOMAIN body /\ StrField(body.title, 1, TitleMaxLen)
    /\ "author" \in DOMAIN body /\ StrField(body.author, 1, AuthorMaxLen)
    /\ "price" \in DOMAIN body /\ PositiveFloat(body.price)
    /\ "available" \in DOMAIN body => body.available.type = "bool"

\* the BookCreate object of a body that validates; keys that are no field are dropped
BookCreate(body) ==
    [title |-> body.title,
     author |-> body.author,
     price |-> ToFloat(body.price),
     available |-> IF "available" \in DOMAIN body THEN body.available ELSE PyBool(TRUE)]

\* BookUpdate: every field Optional, None accepted
BookUpdateValid(body) ==
    /\ "title" \in DOMAIN body =>
           body.title = PyNone \/ StrField(body.title, 1, TitleMaxLen)
    /\ "author" \in DOMAIN body =>
           body.author = PyNone \/ StrField(body.author, 1, AuthorMaxLen)
    /\ "price" \in DOMAIN body =>
           body.price = PyNone \/ PositiveFloat(body.price)
    /\ "available" \in DOMAIN body =>
           body.available = PyNone \/ body.available.type = "bool"

\* the BookUpdate object: unset fields default to None, model_fields_set records
\* the fields the body carried
BookUpdate(body) ==
    [title |-> IF "title" \in DOMAIN body THEN body.title ELSE PyNone,
     author |-> IF "author" \in DOMAIN body THEN body.author ELSE PyNone,
     price |-> IF "price" \in DOMAIN body THEN
                   (IF body.price = PyNone THEN PyNone ELSE ToFloat(body.price))
               ELSE PyNone,
     available |-> IF "available" \in DOMAIN body THEN body.available ELSE PyNone,
     model_fields_set |-> DOMAIN body \cap Fields]

\* Book(id=book_id, **data)
Book(book_id, data) ==
    [id |-> book_id, title |-> data.title, author |-> data.author,
     price |-> data.price, available |-> data.available]

\* BookCreate.model_dump()
model_dump(m) == [f \in Fields |-> m[f]]

\* a variant that dumps every field, set or not
model_dump_with_unset(m) == [f \in Fields |-> m[f]]

\* BookUpdate.model_dump(exclude_unset=True)
model_dump_exclude_unset(m) == [f \in m.model_fields_set |-> m[f]]

\* Book.model_copy(update=update): a new object, no validation
model_copy(book, update) ==
    [f \in DOMAIN book |-> IF f \in DOMAIN update THEN update[f] ELSE book[f]]

-----------------------------------------------------------------------------
(* Request bodies and path parameters the clients send *)

LongTitle == "xxxxxxxxxxxxxxxxxxxxxxxxxxxxxxxxxxxxxxxxxxxxxxxxxxxxxxxxxxxxxxxxxxxxxxxxxxxxxxxxxxxxxxxxxxxxxxxxxxxxxxxxxxxxxxxxxxxxxxxxxxxxxxxxxxxxxxxxxxxxxxxxxxxxxxxxxxxxxxxxxxxxxxxxxxxxxxxxxxxxxxxxxxxxxxxxxxxxxxxxx"

CreateBodies ==
    { [title |-> PyStr("A"), author |-> PyStr("X"), price |-> PyInt(1)],
      [id |-> PyInt(1), title |-> PyStr("B"), author |-> PyStr("X"),
       price |-> PyFloat(2), available |-> PyBool(FALSE)],
      [title |-> PyStr(""), author |-> PyStr("X"), price |-> PyFloat(1)],
      [title |-> PyStr(LongTitle), author |-> PyStr("X"), price |-> PyFloat(1)],
      [title |-> PyStr("A"), author |-> PyStr("X"), price |-> PyFloat(0)],
      [title |-> PyStr("A"), price |-> PyFloat(1)] }

UpdateBodies ==
    { << >>,
      [id |-> PyInt(2), price |-> PyInt(2), available |-> PyBool(FALSE)],
      [title |-> PyNone],
      [title |-> PyStr("")],
      [price |-> PyFloat(0)] }

BookIds == 1..(MaxCreates + 1)

NoBody == << >>

-----------------------------------------------------------------------------
(* src/app/database.py: BookDatabase, each method as one atomic call.      *)
(* A method is an operator from the current state to a result: the heap,   *)
(* _books and _next_id it leaves and the value it returns.                 *)

Result(h, b, n, r) == [heap |-> h, books |-> b, next_id |-> n, ret |-> r]

\* d[k] = v on a dict
SetItem(d, k, v) == [x \in DOMAIN d \cup {k} |-> IF x = k THEN v ELSE d[x]]

\* del d[k]
DelItem(d, k) == [x \in DOMAIN d \ {k} |-> d[x]]

\* the address a newly constructed object gets
NewRef == CHOOSE r \in 1..(Cardinality(DOMAIN heap) + 1) : r \notin DOMAIN heap

RECURSIVE Ascending(_)
Ascending(S) ==
    IF S = {} THEN << >>
    ELSE LET m == CHOOSE x \in S : \A y \in S : x <= y
         IN  <<m>> \o Ascending(S \ {m})

count == Cardinality(DOMAIN _books)

\* a variant that derives the id from the number of stored books
_generate_id_from_count == [current_id |-> count + 1, next_id |-> _next_id + 1]

_generate_id == [current_id |-> _next_id, next_id |-> _next_id + 1]

\* a variant that files the book under the incremented counter
create_under_next(book_data) ==
    LET g == _generate_id
        book == Book(g.current_id, model_dump(book_data))
        r == NewRef
    IN  Result(SetItem(heap, r, book), SetItem(_books, g.next_id, r), g.next_id, Ref(r))

create(book_data) ==
    LET g == _generate_id
        book_id == g.current_id
        book == Book(book_id, model_dump(book_data))
        r == NewRef
    IN  Result(SetItem(heap, r, book), SetItem(_books, book_id, r), g.next_id, Ref(r))

\* list(self._books.values()): keys were inserted in increasing order
get_all ==
    LET ids == Ascending(DOMAIN _books)
    IN  Result(heap, _books, _next_id,
               PyList([i \in 1..Len(ids) |-> _books[ids[i]]]))

\* self._books.get(book_id)
dict_get(book_id) ==
    IF book_id \in DOMAIN _books THEN Ref(_books[book_id]) ELSE PyNone

get_by_id(book_id) == Result(heap, _books, _next_id, dict_get(book_id))

\* a variant that stores the patch as a new book when the id is missing
update_or_insert(book_id, book_data) ==
    LET r == NewRef
        base == IF book_id \in DOMAIN _books THEN heap[_books[book_id]]
                ELSE Book(book_id, book_data)
        updated_book == model_copy(base, model_dump_exclude_unset(book_data))
    IN  Result(SetItem(heap, r, updated_book), SetItem(_books, book_id, r),
               _next_id, Ref(r))

update(book_id, book_data) ==
    LET book == dict_get(book_id)
    IN  IF book = PyNone
        THEN Result(heap, _books, _next_id, PyNone)
        ELSE LET update_data == model_dump_exclude_unset(book_data)
                 updated_book == model_copy(heap[book.ref], update_data)
                 r == NewRef
             IN  Result(SetItem(heap, r, updated_book), SetItem(_books, book_id, r),
                        _next_id, Ref(r))

\* a variant that reports the removal without making it
delete_without_del(book_id) ==
    Result(heap, _books, _next_id, PyBool(book_id \in DOMAIN _books))

delete(book_id) ==
    IF book_id \in DOMAIN _books
    THEN Result(heap, DelItem(_books, book_id), _next_id, PyBool(TRUE))
    ELSE Result(heap, _books, _next_id, PyBool(FALSE))

exists(book_id) == book_id \in DOMAIN _books

\* the addresses a returned value refers to
RefsOf(v) ==
    IF v.type = "Book" THEN {v.ref}
    ELSE IF v.type = "list" THEN Range(v.refs)
    ELSE {}

\* The method returns: the state becomes its result, the caller keeps the
\* addresses in keep, and objects nothing refers to any longer are freed.
Commit(res, keep) ==
    /\ _books' = res.books
    /\ _next_id' = res.next_id
    /\ ret' = res.ret
    /\ held' = keep
    /\ heap' = [r \in DOMAIN res.heap \cap
                      (Range(res.books) \cup RefsOf(res.ret) \cup keep) |-> res.heap[r]]

-----------------------------------------------------------------------------
(* src/app/routes.py: the request handlers, one request at a time *)

Call(op, book_id, body) == [op |-> op, book_id |-> book_id, body |-> body]

ValidationError == PyRaise("RequestValidationError")

\* 422: the body did not validate, the handler never runs
Reject ==
    /\ status' = 422
    /\ ret' = ValidationError
    /\ UNCHANGED <<heap, _books, _next_id, held, created>>

create_book(body) ==
    /\ call' = Call("create", 0, body)
    /\ UNCHANGED <<threadVars, books>>
    /\ IF BookCreateValid(body)
       THEN LET res == create(BookCreate(body))
            IN  /\ Len(created) < MaxCreates
                /\ Commit(res, held)
                /\ created' = Append(created, res.heap[res.ret.ref].id)
                /\ status' = 201
       ELSE Reject

get_books ==
    /\ call' = Call("get_all", 0, NoBody)
    /\ Commit(get_all, held)
    /\ status' = 200
    /\ UNCHANGED <<created, threadVars, books>>

get_book(book_id) ==
    LET res == get_by_id(book_id)
    IN  /\ call' = Call("get_by_id", book_id, NoBody)
        /\ Commit(res, held)
        /\ status' = IF res.ret = PyNone THEN 404 ELSE 200
        /\ UNCHANGED <<created, threadVars, books>>

update_book(book_id, body) ==
    /\ call' = Call("update", book_id, body)
    /\ UNCHANGED <<threadVars, books>>
    /\ IF BookUpdateValid(body)
       THEN LET res == update(book_id, BookUpdate(body))
            IN  /\ Commit(res, held)
                /\ status' = IF res.ret = PyNone THEN 404 ELSE 200
                /\ UNCHANGED created
       ELSE Reject

delete_book(book_id) ==
    LET res == delete(book_id)
    IN  /\ call' = Call("delete", book_id, NoBody)
        /\ Commit(res, held)
        /\ status' = IF res.ret = PyBool(TRUE) THEN 204 ELSE 404
        /\ UNCHANGED <<created, threadVars, books>>

\* a request a worker thread serves, with what held when it was taken up: the
\* requests then in progress on other threads, whether book_id was stored, the
\* number of stored books, and the number of requests the thread served before
Request(op, book_id, body, overlaps, live, n) ==
    [op |-> op, book_id |-> book_id, body |-> body,
     overlaps |-> overlaps, live |-> live, count |-> n, served |-> 0]

-----------------------------------------------------------------------------
(* The service after start-up, serving one request at a time *)

Threads == {1, 2}

Init ==
    /\ heap = << >>
    /\ _books = << >>
    /\ _next_id = 1
    /\ call = Call("init", 0, NoBody)
    /\ ret = PyNone
    /\ status = 0
    /\ created = << >>
    /\ held = {}
    /\ pc = [t \in Threads |-> "idle"]
    /\ req = [t \in Threads |-> Request("init", 0, NoBody, {}, FALSE, 0)]
    /\ loc = [t \in Threads |-> << >>]
    /\ books = << >>

Next ==
    \/ \E body \in CreateBodies : create_book(body)
    \/ get_books
    \/ \E book_id \in BookIds : get_book(book_id)
    \/ \E book_id \in BookIds, body \in UpdateBodies : update_book(book_id, body)
    \/ \E book_id \in BookIds : delete_book(book_id)

Spec == Init /\ [][Next]_vars

-----------------------------------------------------------------------------
(* Code in the same process that calls the store's methods itself and keeps *)
(* what they return in a variable (held), as the handlers do until they     *)
(* return. Book is a plain pydantic model: not frozen, no                   *)
(* validate_assignment, so an attribute of a Book can be assigned.          *)

caller_create(body) ==
    LET res == create(BookCreate(body))
    IN  /\ BookCreateValid(body)
        /\ Len(created) < MaxCreates
        /\ call' = Call("create", 0, body)
        /\ Commit(res, RefsOf(res.ret))
        /\ created' = Append(created, res.heap[res.ret.ref].id)
        /\ UNCHANGED <<status, threadVars, books>>

caller_get_all ==
    /\ call' = Call("get_all", 0, NoBody)
    /\ Commit(get_all, RefsOf(get_all.ret))
    /\ UNCHANGED <<status, created, threadVars, books>>

caller_get_by_id(book_id) ==
    LET res == get_by_id(book_id)
    IN  /\ call' = Call("get_by_id", book_id, NoBody)
        /\ Commit(res, RefsOf(res.ret))
        /\ UNCHANGED <<status, created, threadVars, books>>

caller_update(book_id, body) ==
    LET res == update(book_id, BookUpdate(body))
    IN  /\ BookUpdateValid(body)
        /\ call' = Call("update", book_id, body)
        /\ Commit(res, RefsOf(res.ret))
        /\ UNCHANGED <<status, created, threadVars, books>>

\* the caller still holds what an earlier call returned
caller_delete(book_id) ==
    LET res == delete(book_id)
    IN  /\ call' = Call("delete", book_id, NoBody)
        /\ Commit(res, held)
        /\ UNCHANGED <<status, created, threadVars, books>>

\* book.<field> = value on a Book a store method returned
caller_setattr(r, field, value) ==
    /\ r \in held
    /\ call' = Call("setattr", heap[r].id, [f \in {field} |-> value])
    /\ heap' = [heap EXCEPT ![r][field] = value]
    /\ UNCHANGED <<_books, _next_id, ret, held, status, created, threadVars, books>>

NextCaller ==
    \/ \E body \in CreateBodies : caller_create(body)
    \/ caller_get_all
    \/ \E book_id \in BookIds : caller_get_by_id(book_id)
    \/ \E book_id \in BookIds, body \in UpdateBodies : caller_update(book_id, body)
    \/ \E book_id \in BookIds : caller_delete(book_id)
    \/ \E r \in held : caller_setattr(r, "title", PyStr("Z"))

CallerSpec == Init /\ [][NextCaller]_vars

-----------------------------------------------------------------------------
(* src/main.py: the list-backed entry point. Its Book carries the id and   *)
(* has no field constraints; books is a list of Book values.               *)

\* the longest list the model lets books grow to
MaxLegacyBooks == 3

LegacyBodies ==
    { [id |-> PyInt(1), title |-> PyStr("A"), author |-> PyStr("X"), price |-> PyFloat(1)],
      [id |-> PyInt(1), title |-> PyStr("B"), author |-> PyStr("X"), price |-> PyFloat(1),
       available |-> PyBool(FALSE)],
      [id |-> PyInt(2), title |-> PyStr(""), author |-> PyStr("X"), price |-> PyInt(0)],
      [title |-> PyStr("A"), author |-> PyStr("X"), price |-> PyFloat(1)] }

LegacyIds == 1..3

\* class Book(BaseModel) of src/main.py: id, title, author and price required
LegacyBookValid(body) ==
    /\ "id" \in DOMAIN body /\ body.id.type = "int"
    /\ "title" \in DOMAIN body /\ body.title.type = "str"
    /\ "author" \in DOMAIN body /\ body.author.type = "str"
    /\ "price" \in DOMAIN body /\ body.price.type \in {"int", "float"}
    /\ "available" \in DOMAIN body => body.available.type = "bool"

LegacyBook(body) ==
    [id |-> body.id.val, title |-> body.title, author |-> body.author,
     price |-> ToFloat(body.price),
     available |-> IF "available" \in DOMAIN body THEN body.available ELSE PyBool(TRUE)]

\* the index of the first book with this id, 0 when the loop finds none
FirstIndex(book_id) ==
    IF \E i \in 1..Len(books) : books[i].id = book_id
    THEN CHOOSE i \in 1..Len(books) :
             /\ books[i].id = book_id
             /\ \A j \in 1..(i - 1) : books[j].id # book_id
    ELSE 0

\* list.remove(x): drops the first element equal to x
ListRemove(l, x) ==
    LET k == CHOOSE i \in 1..Len(l) : l[i] = x /\ \A j \in 1..(i - 1) : l[j] # x
    IN  [i \in 1..(Len(l) - 1) |-> IF i < k THEN l[i] ELSE l[i + 1]]

LegacyFrame == UNCHANGED <<heap, _books, _next_id, created, held, threadVars>>

legacy_get_books ==
    /\ call' = Call("get_books", 0, NoBody)
    /\ ret' = [type |-> "books", val |-> books]
    /\ status' = 200
    /\ UNCHANGED books
    /\ LegacyFrame

legacy_get_book(book_id) ==
    LET idx == FirstIndex(book_id)
    IN  /\ call' = Call("get_book", book_id, NoBody)
        /\ ret' = IF idx = 0 THEN PyRaise("HTTPException")
                  ELSE [type |-> "books", val |-> <<books[idx]>>]
        /\ status' = IF idx = 0 THEN 404 ELSE 200
        /\ UNCHANGED books
        /\ LegacyFrame

add_book(body) ==
    /\ call' = Call("add_book", 0, body)
    /\ LegacyFrame
    /\ IF LegacyBookValid(body)
       THEN /\ Len(books) < MaxLegacyBooks
            /\ books' = Append(books, LegacyBook(body))
            /\ ret' = [type |-> "books", val |-> <<LegacyBook(body)>>]
            /\ status' = 200
       ELSE /\ ret' = ValidationError
            /\ status' = 422
            /\ UNCHANGED books

legacy_update_book(book_id, body) ==
    /\ call' = Call("update_book", book_id, body)
    /\ LegacyFrame
    /\ IF LegacyBookValid(body)
       THEN LET idx == FirstIndex(book_id)
            IN  IF idx = 0
                THEN /\ ret' = PyRaise("HTTPException")
                     /\ status' = 404
                     /\ UNCHANGED books
                ELSE /\ books' = [books EXCEPT ![idx] = LegacyBook(body)]
                     /\ ret' = [type |-> "books", val |-> <<LegacyBook(body)>>]
                     /\ status' = 200
       ELSE /\ ret' = ValidationError
            /\ status' = 422
            /\ UNCHANGED books

legacy_delete_book(book_id) ==
    LET idx == FirstIndex(book_id)
    IN  /\ call' = Call("delete_book", book_id, NoBody)
        /\ LegacyFrame
        /\ IF idx = 0
           THEN /\ ret' = PyRaise("HTTPException")
                /\ status' = 404
                /\ UNCHANGED books
           ELSE /\ books' = ListRemove(books, books[idx])
                /\ ret' = PyNone
                /\ status' = 200

NextLegacy ==
    \/ legacy_get_books
    \/ \E book_id \in LegacyIds : legacy_get_book(book_id)
    \/ \E body \in LegacyBodies : add_book(body)
    \/ \E book_id \in LegacyIds, body \in LegacyBodies : legacy_update_book(book_id, body)
    \/ \E book_id \in LegacyIds : legacy_delete_book(book_id)

LegacySpec == Init /\ [][NextLegacy]_vars

-----------------------------------------------------------------------------
(* The handlers are plain def functions, so the framework runs each request *)
(* in a thread of its worker pool and requests overlap. BookDatabase takes  *)
(* no lock: a thread switch can fall between any two of its statements that *)
(* touch self._books or self._next_id (between bytecodes, and on a          *)
(* free-threaded build the threads run in parallel). Statements that touch  *)
(* only the thread's own frame are folded into the step before them.        *)
(* pc names the source line of database.py the thread runs next; loc is the *)
(* thread's frame.                                                          *)

\* requests a worker thread serves per behaviour
MaxRequests == 2

\* the validated requests the overlapping clients send
ConcCreateBodies == {[title |-> PyStr("A"), author |-> PyStr("X"), price |-> PyInt(1)]}

ConcUpdateBodies == {[price |-> PyInt(2), available |-> PyBool(FALSE)]}

ConcIds == 1..MaxCreates

InFlight(t) == pc[t] \notin {"idle", "done"}

\* the addresses the frames refer to
FrameRefs(l) == UNION {UNION {RefsOf(l[t][v]) : v \in DOMAIN l[t]} : t \in Threads}

\* one step of thread t: its next line, its frame, and the shared state it leaves
Step(t, line, frame, h, b, n) ==
    /\ pc' = [pc EXCEPT ![t] = line]
    /\ loc' = [loc EXCEPT ![t] = frame]
    /\ _books' = b
    /\ _next_id' = n
    /\ heap' = [r \in DOMAIN h \cap (Range(b) \cup FrameRefs(loc')) |-> h[r]]
    /\ UNCHANGED <<call, ret, status, held, books>>

\* the frame with one more local variable
Bind(frame, name, value) == SetItem(frame, name, value)

\* the thread pool hands thread t a validated request
begin(t, op, book_id, body) ==
    /\ ~InFlight(t)
    /\ req[t].served < MaxRequests
    /\ req' = [u \in Threads |->
                 IF u = t
                 THEN [Request(op, book_id, body, {w \in Threads \ {t} : InFlight(w)},
                               book_id \in DOMAIN _books, count)
                         EXCEPT !.served = req[t].served + 1]
                 ELSE [req[u] EXCEPT !.overlaps = @ \ {t}]]
    /\ Step(t, CASE op = "create" -> "L38"
                 [] op = "update" -> "L89"
                 [] op = "delete" -> "L107",
            << >>, heap, _books, _next_id)
    /\ UNCHANGED created

\* line 38: current_id = self._next_id
generate_id_L38(t) ==
    /\ pc[t] = "L38"
    /\ Step(t, "L39", Bind(loc[t], "current_id", PyInt(_next_id)), heap, _books, _next_id)
    /\ UNCHANGED <<req, created>>

\* line 39, self._next_id += 1: the attribute is loaded ...
generate_id_L39_load(t) ==
    /\ pc[t] = "L39"
    /\ Step(t, "L39_store", Bind(loc[t], "loaded", PyInt(_next_id)), heap, _books, _next_id)
    /\ UNCHANGED <<req, created>>

\* ... and the sum is stored back
generate_id_L39_store(t) ==
    /\ pc[t] = "L39_store"
    /\ Step(t, "L53", [current_id |-> loc[t].current_id], heap, _books, loc[t].loaded.val + 1)
    /\ UNCHANGED <<req, created>>

\* lines 52-58: the Book is built, stored under book_id and returned
create_L57(t) ==
    LET book_id == loc[t].current_id.val
        book == Book(book_id, model_dump(BookCreate(req[t].body)))
        r == NewRef
    IN  /\ pc[t] = "L53"
        /\ Step(t, "done", [return |-> Ref(r)],
                SetItem(heap, r, book), SetItem(_books, book_id, r), _next_id)
        /\ created' = Append(created, book_id)
        /\ UNCHANGED req

\* line 89: book = self._books.get(book_id)
update_L89(t) ==
    /\ pc[t] = "L89"
    /\ Step(t, "L90", Bind(loc[t], "book", dict_get(req[t].book_id)), heap, _books, _next_id)
    /\ UNCHANGED <<req, created>>

\* lines 90-98: None when the book was not found; else the copy is built,
\* stored under book_id and returned
update_L96(t) ==
    /\ pc[t] = "L90"
    /\ IF loc[t].book = PyNone
       THEN Step(t, "done", [return |-> PyNone], heap, _books, _next_id)
       ELSE LET update_data == model_dump_exclude_unset(BookUpdate(req[t].body))
                updated_book == model_copy(heap[loc[t].book.ref], update_data)
                r == NewRef
            IN  Step(t, "done", [return |-> Ref(r)], SetItem(heap, r, updated_book),
                     SetItem(_books, req[t].book_id, r), _next_id)
    /\ UNCHANGED <<req, created>>

\* line 107: if book_id in self._books; line 110 when it is not
delete_L107(t) ==
    /\ pc[t] = "L107"
    /\ IF req[t].book_id \in DOMAIN _books
       THEN Step(t, "L108", loc[t], heap, _books, _next_id)
       ELSE Step(t, "done", [return |-> PyBool(FALSE)], heap, _books, _next_id)
    /\ UNCHANGED <<req, created>>

\* lines 108-109: del self._books[book_id] raises KeyError when the key is gone
delete_L108(t) ==
    /\ pc[t] = "L108"
    /\ IF req[t].book_id \in DOMAIN _books
       THEN Step(t, "done", [return |-> PyBool(TRUE)],
                 heap, DelItem(_books, req[t].book_id), _next_id)
       ELSE Step(t, "done", [return |-> PyRaise("KeyError")], heap, _books, _next_id)
    /\ UNCHANGED <<req, created>>

\* create requests taken up so far
CreatesBegun ==
    Len(created) + Cardinality({t \in Threads : InFlight(t) /\ req[t].op = "create"})

NextConc ==
    \E t \in Threads :
        \/ \E body \in ConcCreateBodies :
              BookCreateValid(body) /\ CreatesBegun < MaxCreates /\ begin(t, "create", 0, body)
        \/ \E book_id \in ConcIds, body \in ConcUpdateBodies :
              BookUpdateValid(body) /\ begin(t, "update", book_id, body)
        \/ \E book_id \in ConcIds : begin(t, "delete", book_id, NoBody)
        \/ generate_id_L38(t)
        \/ generate_id_L39_load(t)
        \/ generate_id_L39_store(t)
        \/ create_L57(t)
        \/ update_L89(t)
        \/ update_L96(t)
        \/ delete_L107(t)
        \/ delete_L108(t)

ConcSpec == Init /\ [][NextConc]_vars

-----------------------------------------------------------------------------
(* Properties of the store under sequential requests (Spec) *)

\* what the store holds, by value: book id -> the fields of the stored Book
View == [id \in DOMAIN _books |-> heap[_books[id]]]

\* the last step called the store method op (the body, if any, validated)
Called(op) == call.op = op /\ status # 422

\* C1: on a fresh store the k-th create returns id k, whatever updates and
\* deletes come in between: ids start at 1, strictly increase, are never
\* returned twice and a deleted id is never assigned again.
C1_KthCreateReturnsK == \A k \in 1..Len(created) : created[k] = k

\* a create has just returned after the first book was deleted
C1_Witness ==
    /\ Called("create")
    /\ Len(created) >= 2
    /\ created[1] \notin DOMAIN _books

C6_NotFoundNoEffect ==
    [][ \A book_id \in BookIds :
          ( /\ Called("get_by_id")' \/ Called("update")' \/ Called("delete")'
            /\ call'.book_id = book_id
            /\ book_id \notin DOMAIN _books ) =>
             /\ ret' = IF call'.op = "delete" THEN PyBool(FALSE) ELSE PyNone
             /\ _books' = _books
             /\ View' = View
             /\ count' = count
             /\ _next_id' = _next_id ]_vars

\* an update of a deleted id has just returned None while other books are stored
C6_Witness ==
    /\ Called("update")
    /\ ret = PyNone
    /\ \E k \in 1..Len(created) : created[k] = call.book_id
    /\ count >= 1

\* C7: delete on an existing id returns True, removes that record and no other,
\* after it get_by_id reports None and count is one less; a second delete of the
\* id returns False and leaves the count.
C7_Delete ==
    [][ \A book_id \in BookIds :
          (Called("delete")' /\ call'.book_id = book_id /\ book_id \in DOMAIN _books) =>
             /\ ret' = PyBool(TRUE)
             /\ DOMAIN _books' = DOMAIN _books \ {book_id}
             /\ \A j \in DOMAIN _books \ {book_id} : View'[j] = View[j]
             /\ get_by_id(book_id)'.ret = PyNone
             /\ count' = count - 1
             /\ delete(book_id)'.ret = PyBool(FALSE)
             /\ Cardinality(DOMAIN delete(book_id)'.books) = count' ]_vars

\* a delete has just returned True and another record is still stored
C7_Witness ==
    /\ Called("delete")
    /\ ret = PyBool(TRUE)
    /\ count >= 1

\* C9: right after create(input), get_by_id(result.id) returns a record equal
\* to the one create returned: the generated id with the input's title, author,
\* price and available.
C9_RoundTrip ==
    Called("create") =>
        LET input == BookCreate(call.body)
            result == heap[ret.ref]
            got == get_by_id(result.id).ret
        IN  /\ got.type = "Book"
            /\ heap[got.ref] = result
            /\ result = [id |-> created[Len(created)], title |-> input.title,
                         author |-> input.author, price |-> input.price,
                         available |-> input.available]

\* a create whose input sets available to false has just returned, second in the store
C9_Witness ==
    /\ Called("create")
    /\ count = 2
    /\ heap[ret.ref].available = PyBool(FALSE)

\* C10: every stored record has a non-empty string title and author, a strictly
\* positive price and a boolean available.
C10_RecordsValid ==
    \A id \in DOMAIN _books :
        /\ View[id].title.type = "str" /\ Len(View[id].title.val) >= 1
        /\ View[id].author.type = "str" /\ Len(View[id].author.val) >= 1
        /\ View[id].price.type = "float" /\ View[id].price.val > 0
        /\ View[id].available.type = "bool"

-----------------------------------------------------------------------------
(* Properties of references handed to callers (CallerSpec) *)

\* C5: a record a store method returned is a snapshot: assigning to an
\* attribute of it never changes what the store holds, so never what a later
\* get_by_id, get_all or update observes.
C5_ReturnedIsSnapshot == [][ call'.op = "setattr" => View' = View ]_vars

-----------------------------------------------------------------------------
(* Properties of create requests at the list-backed entry point (LegacySpec) *)

\* C8: the id of a stored record is chosen by the server, not by the payload:
\* no sequence of create requests leaves two live records with the same id.
C8_NoTwoLiveRecordsShareId ==
    \A i, j \in 1..Len(books) : i # j => books[i].id # books[j].id

-----------------------------------------------------------------------------
(* Properties of overlapping requests (ConcSpec) *)

\* the requests threads t and u have completed ran at the same time
Overlapped(t, u) ==
    /\ t # u
    /\ pc[t] = "done" /\ pc[u] = "done"
    /\ t \in req[u].overlaps \/ u \in req[t].overlaps

\* C2: two create operations whose steps interleave never receive the same id,
\* and both created records are in the store afterwards.
C2_ConcurrentCreates ==
    \A t, u \in Threads :
        (Overlapped(t, u) /\ req[t].op = "create" /\ req[u].op = "create") =>
            /\ heap[loc[t].return.ref].id # heap[loc[u].return.ref].id
            /\ \A w \in {t, u} :
                  /\ heap[loc[w].return.ref].id \in DOMAIN _books
                  /\ _books[heap[loc[w].return.ref].id] = loc[w].return.ref

\* C3: when update and delete of the same live id interleave, once both have
\* completed the record is absent and count is one less than before: update
\* never puts back a record delete has removed.
C3_UpdateDeleteSerial ==
    \A t, u \in Threads :
        ( /\ Overlapped(t, u)
          /\ req[t].op = "update" /\ req[u].op = "delete"
          /\ req[t].book_id = req[u].book_id
          /\ req[t].live /\ req[u].live ) =>
            /\ req[t].book_id \notin DOMAIN _books
            /\ count = (IF t \in req[u].overlaps THEN req[u].count ELSE req[t].count) - 1

====
